---- MODULE Spec2Model ----
(***************************************************************************)
(* Radio firmware management and flashing engine: the radio flash route,   *)
(* the radio search route's download stream, the fastboot route and the    *)
(* FastbootManager they drive.                                             *)
(*                                                                         *)
(* Text is modelled as a sequence of tokens, so that building a command    *)
(* by template interpolation is concatenation of token sequences and a     *)
(* value can be inspected for the tokens it is made of.                    *)
(***************************************************************************)
EXTENDS Integers, Sequences, FiniteSets, TLC

\* ------------------------------------------------------------------ bounds

\* Streaming requests (flash and download streams) handled by the process.
MaxReq == 2
\* Progress callbacks a session makes on top of the one that opens each stage.
MaxExtra == 1

Reqs == 1..MaxReq
Devices == {"d1", "d2"}
\* deviceId absent from the request (undefined, or the empty string: the
\* code tests it for truthiness only)
NoDevice == ""

VARIABLES
    kind,       \* kind[r]: "free", "flash" (radio flash route), "download" (radio search route)
    resp,       \* resp[r]: what the route returned: "none", "stream" or a JSON error body
    sess,       \* sess[r]: the orchestrator's session behind request r
    stream,     \* stream[r]: the chunks enqueued on the request's ReadableStream
    closed,     \* closed[r]: controller.close() was called
    emitted,    \* emitted[r]: what the session passed to its progress callback, in order
    issued,     \* issued[r]: device operations the session passed to the transport
    threw,      \* threw[r]: a controller.enqueue raised (stream already closed)
    fb,         \* the fastboot route's last request, the commands it ran and its response
    api,        \* the last request to a JSON action of the other routes, the library
                \* calls it made and its response
    mgr,        \* the last FastbootManager call made directly, what it ran and returned
    wait,       \* the waitForDevice call in progress, with the clock it reads
    cache       \* the firmware catalog's cache: search parameters |-> the array stored

vars == <<kind, resp, sess, stream, emitted, closed, issued, threw, fb, api, mgr, wait, cache>>

\* ------------------------------------------------------- stream primitives

\* encoder.encode(`data: ${JSON.stringify(progress)}\n\n`)
Frame(e) == <<"data: ", e, "\n\n">>

\* What a consumer parses back out of one chunk.
Payload(chunk) == chunk[2]

Events(r) == [i \in 1..Len(stream[r]) |-> Payload(stream[r][i])]

\* A variant in which a closed stream still takes what is enqueued.
EnqueueAfterCloseKept(q, isClosed, e) == Append(q, Frame(e))

\* controller.enqueue(data): a closed controller raises a TypeError and
\* takes nothing.
Enqueue(q, isClosed, e) == IF isClosed THEN q ELSE Append(q, Frame(e))

EnqueueThrows(isClosed) == isClosed

\* ------------------------------------------------------------------- text

\* String.prototype.toLowerCase, on the letters the model's values use.
LowerChar(c) ==
    CASE c = "E" -> "e" [] c = "U" -> "u" [] c = "S" -> "s" [] c = "O" -> "o"
      [] c = "P" -> "p" [] c = "N" -> "n" [] OTHER -> c

toLowerCase(t) == [i \in DOMAIN t |-> LowerChar(t[i])]

\* String.prototype.includes
includes(t, q) ==
    \E i \in 0..(Len(t) - Len(q)) : SubSeq(t, i + 1, i + Len(q)) = q

\* --------------------------------------------------------- FastbootManager

\* What execAsync(fullCommand) can come back with: the process ran and wrote
\* to its two channels, or it failed (non-zero exit, spawn failure) and the
\* promise rejected with an Error carrying a message.
ExecOutcomes ==
    { [ok |-> TRUE, stdout |-> <<"OKAY">>, stderr |-> <<"Finished.">>],
      [ok |-> TRUE, stdout |-> <<>>, stderr |-> <<"OKAY">>],
      [ok |-> TRUE, stdout |-> <<>>,
       stderr |-> <<"partition-type:", "radio", ":", " ", "raw", "\n", "Finished.">>],
      [ok |-> FALSE, message |-> "FAILED (remote: flashing is not allowed)"],
      [ok |-> FALSE, message |-> "spawn fastboot ENOENT"] }

\* The outcomes a session's transport calls are checked with.
SessionOutcomes ==
    { [ok |-> TRUE, stdout |-> <<"OKAY">>, stderr |-> <<"Finished.">>],
      [ok |-> FALSE, message |-> "FAILED (remote: flashing is not allowed)"] }

\* const devicePrefix = deviceId ? `-s ${deviceId}` : ''
devicePrefix(deviceId) == IF deviceId # NoDevice THEN <<"-s", deviceId>> ELSE <<>>

\* devicePrefix ? `fastboot ${devicePrefix} ${command}` : `fastboot ${command}`
fullCommand(command, deviceId) ==
    IF devicePrefix(deviceId) # <<>>
    THEN <<"fastboot">> \o devicePrefix(deviceId) \o command
    ELSE <<"fastboot">> \o command

\* A variant that puts the second channel first.
ExecResultStderrFirst(out) ==
    IF out.ok
    THEN [success |-> TRUE, output |-> out.stderr \o out.stdout]
    ELSE [success |-> FALSE, output |-> <<>>, error |-> out.message]

\* The result executeCommand builds from what execAsync came back with.
ExecResult(out) ==
    IF out.ok
    THEN [success |-> TRUE, output |-> out.stdout \o out.stderr]
    ELSE [success |-> FALSE, output |-> <<>>, error |-> out.message]

\* A variant that runs the command a second time when the first run failed.
executeCommandRetrying(command, deviceId, out) ==
    [ran |-> IF out.ok THEN <<fullCommand(command, deviceId)>>
             ELSE <<fullCommand(command, deviceId), fullCommand(command, deviceId)>>,
     result |-> ExecResult(out)]

\* executeCommand(command, deviceId): one execAsync call, whose outcome is
\* turned into a result; `ran` is what reached the transport.
executeCommand(command, deviceId, out) ==
    [ran |-> <<fullCommand(command, deviceId)>>, result |-> ExecResult(out)]

\* `flash ${partition} "${imagePath}"`
FlashCommand(partition, imagePath) ==
    <<"flash">> \o partition \o <<"\"">> \o imagePath \o <<"\"">>

flashPartition(partition, imagePath, deviceId, out) ==
    executeCommand(FlashCommand(partition, imagePath), deviceId, out)

flashRecovery(recoveryPath, deviceId, out) ==
    flashPartition(<<"recovery">>, recoveryPath, deviceId, out)

flashBoot(bootPath, deviceId, out) == flashPartition(<<"boot">>, bootPath, deviceId, out)

flashSystem(systemPath, deviceId, out) ==
    flashPartition(<<"system">>, systemPath, deviceId, out)

flashRadio(radioPath, deviceId, out) ==
    flashPartition(<<"radio">>, radioPath, deviceId, out)

flashModem(modemPath, deviceId, out) ==
    flashPartition(<<"modem">>, modemPath, deviceId, out)

\* `erase ${partition}`
erasePartition(partition, deviceId, out) ==
    executeCommand(<<"erase">> \o partition, deviceId, out)

\* `format:${filesystem} ${partition}`
formatPartition(partition, filesystem, deviceId, out) ==
    executeCommand(<<"format:">> \o filesystem \o partition, deviceId, out)

\* mode === 'system' ? 'reboot' : `reboot-${mode}`
rebootDevice(mode, deviceId, out) ==
    executeCommand(IF mode = <<"system">> THEN <<"reboot">> ELSE <<"reboot-">> \o mode,
                   deviceId, out)

\* JavaScript's null: a value apart from every text (a text is made of
\* characters and pieces, none of which is this one).
Null == <<"null">>

Whitespace == {" ", "\t", "\n"}

\* String.prototype.trim() on a token sequence
RECURSIVE Trim(_)
Trim(t) ==
    IF t = <<>> THEN t
    ELSE IF Head(t) \in Whitespace THEN Trim(Tail(t))
    ELSE IF t[Len(t)] \in Whitespace THEN Trim(SubSeq(t, 1, Len(t) - 1))
    ELSE t

\* The tokens of `t` from position i up to the end of its line.
RECURSIVE RestOfLine(_, _)
RestOfLine(t, i) ==
    IF i > Len(t) \/ t[i] = "\n" THEN <<>> ELSE <<t[i]>> \o RestOfLine(t, i + 1)

\* The first position at or after j that `\s*(.+)` can start its group at:
\* `\s*` takes all the white space it can, newlines too, and gives back what
\* `(.+)` needs; `.` does not match a newline.
GroupStarts(output, j) ==
    { m \in j..Len(output) :
        /\ \A k \in j..(m - 1) : output[k] \in Whitespace
        /\ output[m] # "\n" }

GroupStart(output, j) ==
    CHOOSE m \in GroupStarts(output, j) : \A n \in GroupStarts(output, j) : n <= m

\* result.output.match(/partition-type:\w+:\s*(.+)/), then match[1].trim()
PartitionTypeMatches(output) ==
    { i \in 1..Len(output) :
        /\ i + 3 <= Len(output)
        /\ output[i] = "partition-type:"
        /\ output[i + 1] \notin Whitespace \cup {":"}
        /\ output[i + 2] = ":"
        /\ GroupStarts(output, i + 3) # {} }

ParsePartitionType(output) ==
    IF PartitionTypeMatches(output) = {} THEN Null
    ELSE LET i == CHOOSE m \in PartitionTypeMatches(output) :
                    \A n \in PartitionTypeMatches(output) : m <= n
         IN Trim(RestOfLine(output, GroupStart(output, i + 3)))

\* getPartitionInfo: `getvar partition-type:${partition}` and the parsed value
getPartitionInfo(partition, deviceId, out) ==
    LET x == executeCommand(<<"getvar", "partition-type:">> \o partition, deviceId, out)
    IN [ran |-> x.ran,
        info |-> IF x.result.success THEN ParsePartitionType(x.result.output) ELSE Null]

unlockBootloader(deviceId, out) == executeCommand(<<"flashing", "unlock">>, deviceId, out)

lockBootloader(deviceId, out) == executeCommand(<<"flashing", "lock">>, deviceId, out)

continueBootloader(deviceId, out) == executeCommand(<<"continue">>, deviceId, out)

\* fs.access(imagePath) then fs.stat(imagePath).size > 0; any throw is false.
validateImage(file) == file = "nonempty"

\* const { stdout } = await execAsync('fastboot devices'): one line per
\* device, `${id}\tfastboot`.
RECURSIVE DevicesStdout(_)
DevicesStdout(ids) ==
    IF ids = <<>> THEN <<>>
    ELSE <<Head(ids), "\t", "fastboot", "\n">> \o DevicesStdout(Tail(ids))

\* stdout.split('\n')
RECURSIVE Lines(_)
Lines(t) ==
    IF \A i \in DOMAIN t : t[i] # "\n" THEN <<t>>
    ELSE LET n == CHOOSE i \in DOMAIN t :
                      t[i] = "\n" /\ \A j \in 1..(i - 1) : t[j] # "\n"
         IN <<SubSeq(t, 1, n - 1)>> \o Lines(SubSeq(t, n + 1, Len(t)))

\* The ids of the lines that are not blank and mention fastboot:
\* line.split('\t')[0], when it is not empty.
RECURSIVE DeviceIds(_)
DeviceIds(lines) ==
    IF lines = <<>> THEN <<>>
    ELSE LET line == Head(lines)
             listed == /\ Trim(line) # <<>>
                       /\ \E i \in DOMAIN line : line[i] = "fastboot"
                       /\ Head(line) # "\t"
         IN (IF listed THEN <<Head(line)>> ELSE <<>>) \o DeviceIds(Tail(lines))

\* getConnectedDevices(): the ids `fastboot devices` lists; [] when it fails.
getConnectedDevices(attached, ok) ==
    [ran |-> << <<"fastboot", "devices">> >>,
     devices |-> IF ok THEN DeviceIds(Lines(DevicesStdout(attached))) ELSE <<>>]

\* output.match(new RegExp(`${variable}:\\s*(.+)`)): where the pattern
\* matches, leftmost first.
VariableMatches(output, variable) ==
    { i \in 1..(Len(output) - 1) :
        /\ output[i] = variable
        /\ output[i + 1] = ":"
        /\ GroupStarts(output, i + 2) # {} }

\* match ? match[1].trim() : null
ParseVariable(output, variable) ==
    IF VariableMatches(output, variable) = {} THEN Null
    ELSE LET i == CHOOSE m \in VariableMatches(output, variable) :
                    \A n \in VariableMatches(output, variable) : m <= n
         IN Trim(RestOfLine(output, GroupStart(output, i + 2)))

\* devicePrefix ? `fastboot ${devicePrefix} getvar ${variable}`
\*              : `fastboot getvar ${variable}`
GetvarCommand(variable, prefix) ==
    IF prefix # <<>> THEN <<"fastboot">> \o prefix \o <<"getvar", variable>>
    ELSE <<"fastboot", "getvar", variable>>

\* getVariable(variable, devicePrefix): the value parsed out of both
\* channels, null when the pattern is not there or the command fails.
getVariable(variable, prefix, out) ==
    [ran |-> <<GetvarCommand(variable, prefix)>>,
     value |-> IF out.ok THEN ParseVariable(out.stdout \o out.stderr, variable) ELSE Null]

\* getDeviceCodename(deviceId)
getDeviceCodename(deviceId, out) == getVariable("product", devicePrefix(deviceId), out)

\* version || 'Unknown'
OrUnknown(v) == IF v = Null \/ v = <<>> THEN <<"Unknown">> ELSE v

BootloaderVariables == <<"version-bootloader", "variant", "unlocked", "secure", "serialno">>

\* getBootloaderInfo(deviceId): null with no device listed; otherwise the
\* five variables, read with the prefix of the deviceId given.
getBootloaderInfo(deviceId, attached, ok, outs) ==
    LET listed == getConnectedDevices(attached, ok)
        read == [i \in 1..5 |->
                   getVariable(BootloaderVariables[i], devicePrefix(deviceId), outs[i])]
    IN IF listed.devices = <<>> THEN [ran |-> listed.ran, info |-> Null]
       ELSE [ran |-> listed.ran \o read[1].ran \o read[2].ran \o read[3].ran
                     \o read[4].ran \o read[5].ran,
             info |-> [version |-> OrUnknown(read[1].value),
                       variant |-> OrUnknown(read[2].value),
                       locked |-> read[3].value # <<"y", "e", "s">>,
                       secureboot |-> read[4].value = <<"y", "e", "s">>,
                       serialNumber |-> OrUnknown(read[5].value)]]

\* value?.toLowerCase().includes(marker): undefined for a null value.
IncludesMarker(value, marker) ==
    IF value = Null THEN FALSE ELSE includes(toLowerCase(value), marker)

oneplus == <<"o", "n", "e", "p", "l", "u", "s">>
op == <<"o", "p">>
nord == <<"n", "o", "r", "d">>

\* isOnePlusDevice(deviceId): product against 'oneplus', 'op' and 'nord',
\* brand against 'oneplus'.
isOnePlusDevice(deviceId, outProduct, outBrand) ==
    LET product == getVariable("product", devicePrefix(deviceId), outProduct)
        brand == getVariable("brand", devicePrefix(deviceId), outBrand)
    IN [ran |-> product.ran \o brand.ran,
        result |-> \/ IncludesMarker(product.value, oneplus)
                   \/ IncludesMarker(brand.value, oneplus)
                   \/ IncludesMarker(product.value, op)
                   \/ IncludesMarker(product.value, nord)]

\* ------------------------------------------------- radio flash route events

\* finalResult of the flash stream (flashRadioFirmware resolved).
FlashFinalResult(success) ==
    [success |-> success,
     stage |-> IF success THEN "complete" ELSE "error",
     progress |-> IF success THEN 100 ELSE 0,
     message |-> IF success THEN "Radio firmware flashed successfully!"
                 ELSE "Flash operation failed"]

\* errorResult of the flash stream (flashRadioFirmware rejected).
FlashErrorResult(errorMessage) ==
    [success |-> FALSE, stage |-> "error", progress |-> 0,
     message |-> "Flash operation failed", error |-> errorMessage]

\* ------------------------------------------- radio search route: download

\* Math.round(progress) rendered into the message template.
Percent(p) ==
    CASE p = 0 -> "0" [] p = 50 -> "50" [] p = 100 -> "100" [] OTHER -> "?"

\* The object the download progress callback writes for a number `progress`.
DownloadProgressEvent(p) ==
    [progress |-> p, message |-> "Downloading... " \o Percent(p) \o "%"]

\* The mock record the route hands to downloadRadioFirmware.
mockFirmware(downloadUrl) ==
    [md5 |-> "mock_md5", sha256 |-> "mock_sha256", downloadUrl |-> downloadUrl]

\* finalResult of the download stream (downloadRadioFirmware resolved).
DownloadFinalResult(filePath) ==
    [success |-> TRUE, progress |-> 100,
     message |-> "Download completed successfully!", filePath |-> filePath]

\* A variant whose catch branch still reports success.
DownloadErrorResultAsSuccess(errorMessage) ==
    [success |-> TRUE, progress |-> 0, message |-> "Download failed",
     error |-> errorMessage]

\* errorResult of the download stream (downloadRadioFirmware rejected).
DownloadErrorResult(errorMessage) ==
    [success |-> FALSE, progress |-> 0, message |-> "Download failed",
     error |-> errorMessage]

\* ------------------------------------------------ the flashing orchestrator

Terminal == {"Complete", "Failed"}
\* Stages of a flash from a local path, and of a catalog download, in order.
FlashStages == <<"Detecting", "Backing-Up", "Verifying", "Flashing", "Confirming">>
DownloadStages == <<"Downloading", "Verifying">>

StagesOf(k) == IF k = "flash" THEN FlashStages ELSE DownloadStages

\* progressPercent a session reports on entering a stage.
StageProgress(stage) ==
    CASE stage = "Detecting" -> 5
      [] stage = "Backing-Up" -> 20
      [] stage = "Downloading" -> 0
      [] stage = "Verifying" -> 40
      [] stage = "Flashing" -> 60
      [] stage = "Confirming" -> 90
      [] stage = "Complete" -> 100
      [] OTHER -> 0

StageEvent(stage, progress) ==
    [stage |-> stage, progress |-> progress,
     message |-> CASE stage = "Detecting" -> "Detecting device..."
                   [] stage = "Backing-Up" -> "Backing up current radio..."
                   [] stage = "Verifying" -> "Verifying firmware..."
                   [] stage = "Flashing" -> "Flashing radio partition..."
                   [] stage = "Confirming" -> "Confirming radio version..."
                   [] OTHER -> "Working..."]

NoSession ==
    [dev |-> NoDevice, path |-> <<>>, stage |-> "Idle", progress |-> 0,
     extra |-> 0, result |-> "pending", lastError |-> "",
     declared |-> "", computed |-> ""]

\* A variant of the registry that never finds a session.
ActiveSessionNever(deviceId) == FALSE

\* The registry's answer to "is there a non-terminal session for deviceId".
ActiveSession(deviceId) ==
    \E q \in Reqs : /\ kind[q] = "flash"
                    /\ sess[q].dev = deviceId
                    /\ sess[q].stage \notin Terminal \cup {"Idle"}

\* Position of a stage in the session's stage order (0 when it has none).
StageIndex(k, stage) ==
    IF \E i \in DOMAIN StagesOf(k) : StagesOf(k)[i] = stage
    THEN CHOOSE i \in DOMAIN StagesOf(k) : StagesOf(k)[i] = stage
    ELSE 0

\* The device operation a stage hands to the transport when it is entered.
StageOps(k, stage, s) ==
    CASE k = "flash" /\ stage = "Detecting" -> << <<"fastboot", "devices">> >>
      [] k = "flash" /\ stage = "Backing-Up" -> << <<"backup", s.dev>> >>
      [] k = "flash" /\ stage = "Flashing" ->
            << fullCommand(FlashCommand(<<"radio">>, s.path), s.dev) >>
      [] k = "flash" /\ stage = "Confirming" ->
            << fullCommand(<<"getvar", "version-baseband">>, s.dev) >>
      [] k = "download" /\ stage = "Downloading" -> << <<"fetch">> \o s.path >>
      [] OTHER -> <<>>

\* A variant that puts the newest event first.
FlashProgressCallbackPrepends(q, isClosed, progress) ==
    IF isClosed THEN q ELSE <<Frame(progress)>> \o q

\* The flash route's progress callback: what the stream holds after it.
FlashProgressCallback(q, isClosed, progress) == Enqueue(q, isClosed, progress)

\* The download route's progress callback, called with a number.
DownloadProgressCallback(q, isClosed, p) == Enqueue(q, isClosed, DownloadProgressEvent(p))

\* What the orchestrator hands to the callback: flashRadioFirmware a
\* progress object, downloadRadioFirmware a number.
CallbackArg(k, e) == IF k = "flash" THEN e ELSE e.progress

Callback(k, q, isClosed, e) ==
    IF k = "flash" THEN FlashProgressCallback(q, isClosed, CallbackArg(k, e))
    ELSE DownloadProgressCallback(q, isClosed, CallbackArg(k, e))

\* A variant whose catch branch forgets controller.close().
FlashSettledNoClose(q, result, errorMessage) ==
    [chunks |-> Enqueue(q, FALSE,
                        IF result = "throw" THEN FlashErrorResult(errorMessage)
                        ELSE FlashFinalResult(result = "true")),
     closed |-> result # "throw"]

\* The flash stream after flashRadioFirmware settled: the try branch's
\* finalResult or the catch branch's errorResult, then controller.close().
FlashSettled(q, result, errorMessage) ==
    [chunks |-> Enqueue(q, FALSE,
                        IF result = "throw" THEN FlashErrorResult(errorMessage)
                        ELSE FlashFinalResult(result = "true")),
     closed |-> TRUE]

\* The download stream after downloadRadioFirmware settled.
DownloadSettled(q, result, filePath, errorMessage) ==
    [chunks |-> Enqueue(q, FALSE,
                        IF result = "throw" THEN DownloadErrorResult(errorMessage)
                        ELSE DownloadFinalResult(filePath)),
     closed |-> TRUE]

\* Where downloadRadioFirmware stores the artifact of a URL.
StagedPath(downloadUrl) == <<"/tmp/firmware/">> \o downloadUrl

\* ------------------------------------------------------------------- state

NoResponse == [type |-> "none"]
StreamResponse == [type |-> "stream", status |-> 200]
JsonError(status, message) ==
    [type |-> "json", status |-> status, success |-> FALSE, error |-> message]

NoFastboot == [action |-> "none"]
NoApi == [route |-> "none"]
NoCall == [fn |-> "none"]
NoWait == [pc |-> "idle"]

Init ==
    /\ kind = [r \in Reqs |-> "free"]
    /\ resp = [r \in Reqs |-> NoResponse]
    /\ sess = [r \in Reqs |-> NoSession]
    /\ stream = [r \in Reqs |-> <<>>]
    /\ emitted = [r \in Reqs |-> <<>>]
    /\ closed = [r \in Reqs |-> FALSE]
    /\ issued = [r \in Reqs |-> <<>>]
    /\ threw = [r \in Reqs |-> FALSE]
    /\ fb = NoFastboot
    /\ api = NoApi
    /\ mgr = NoCall
    /\ wait = NoWait
    /\ cache = [k \in {} |-> <<>>]

\* Requests are numbered as they arrive.
NextFree(r) == kind[r] = "free" /\ \A q \in Reqs : q < r => kind[q] # "free"

FirmwarePaths == { <<>>, <<"/fw/radio.img">> }
DownloadUrls == { <<>>, <<"https://fw.example/radio.zip">> }
Checksums == { "mock_md5", "0badc0de" }

\* A session entering `stage`: the stage's progress event goes through the
\* route's callback and the stage's device operation to the transport.
EnterStage(r, k, s, q, stage) ==
    /\ sess' = [sess EXCEPT ![r] = [s EXCEPT !.stage = stage,
                                             !.progress = StageProgress(stage)]]
    /\ stream' = [stream EXCEPT ![r] =
                    Callback(k, q, closed[r], StageEvent(stage, StageProgress(stage)))]
    /\ emitted' = [emitted EXCEPT ![r] =
                     Append(@, CallbackArg(k, StageEvent(stage, StageProgress(stage))))]
    /\ issued' = [issued EXCEPT ![r] = @ \o StageOps(k, stage, s)]
    /\ UNCHANGED closed

\* The orchestrator's promise settles (result "true", "false" or "throw")
\* and the route's continuation writes the stream's last event and closes.
Settle(r, k, s, result) ==
    /\ sess' = [sess EXCEPT ![r] = [s EXCEPT !.result = result]]
    /\ LET end == IF k = "flash"
                  THEN FlashSettled(stream[r], result, s.lastError)
                  ELSE DownloadSettled(stream[r], result, StagedPath(s.path), s.lastError)
       IN /\ stream' = [stream EXCEPT ![r] = end.chunks]
          /\ closed' = [closed EXCEPT ![r] = end.closed]
    /\ UNCHANGED <<issued, emitted>>

\* A session failing: Failed, with the error kept, reported by returning
\* false or by throwing.
FailSession(r, k, s, how, message) ==
    Settle(r, k, [s EXCEPT !.stage = "Failed", !.lastError = message], how)

CompleteSession(r, k, s) ==
    Settle(r, k, [s EXCEPT !.stage = "Complete"], "true")

\* How flashRadioFirmware reports a transport failure while flashing: it
\* returns false or lets the error propagate.
FailureModes(k) == IF k = "flash" THEN {"false", "throw"} ELSE {"throw"}

\* POST /api/radio/flash { action: 'flash', firmwarePath, deviceId }
PostFlash(r, firmwarePath, deviceId) ==
    /\ NextFree(r)
    /\ kind' = [kind EXCEPT ![r] = "flash"]
    /\ UNCHANGED <<threw, fb, api, mgr, wait, cache>>
    /\ \/ /\ firmwarePath = <<>>
          /\ resp' = [resp EXCEPT ![r] = JsonError(400, "Firmware path is required")]
          /\ UNCHANGED <<sess, stream, emitted, closed, issued>>
       \/ /\ firmwarePath # <<>>
          /\ ActiveSession(deviceId)
          /\ resp' = [resp EXCEPT ![r] = StreamResponse]
          /\ Settle(r, "flash",
                    [NoSession EXCEPT !.dev = deviceId, !.path = firmwarePath,
                                      !.lastError = "SessionAlreadyActive"],
                    "throw")
       \/ /\ firmwarePath # <<>>
          /\ ~ActiveSession(deviceId)
          /\ resp' = [resp EXCEPT ![r] = StreamResponse]
          /\ EnterStage(r, "flash",
                        [NoSession EXCEPT !.dev = deviceId, !.path = firmwarePath],
                        stream[r], "Detecting")

\* POST /api/radio/search { action: 'download', downloadUrl }
PostDownload(r, downloadUrl) ==
    /\ NextFree(r)
    /\ kind' = [kind EXCEPT ![r] = "download"]
    /\ UNCHANGED <<threw, fb, api, mgr, wait, cache>>
    /\ \/ /\ downloadUrl = <<>>
          /\ resp' = [resp EXCEPT ![r] = JsonError(400, "Download URL is required")]
          /\ UNCHANGED <<sess, stream, emitted, closed, issued>>
       \/ /\ downloadUrl # <<>>
          /\ resp' = [resp EXCEPT ![r] = StreamResponse]
          /\ EnterStage(r, "download",
                        [NoSession EXCEPT !.path = downloadUrl,
                                          !.declared = mockFirmware(downloadUrl).md5],
                        stream[r], "Downloading")

Running(r) ==
    /\ kind[r] \in {"flash", "download"}
    /\ sess[r].stage \notin Terminal \cup {"Idle"}

\* The device operation of the session's current stage answers.
StageAnswer(r) ==
    /\ Running(r)
    /\ UNCHANGED <<kind, resp, threw, fb, api, mgr, wait, cache>>
    /\ LET s == sess[r]
           k == kind[r]
       IN
       \/ /\ k = "flash" /\ s.stage = "Detecting"
          /\ \E found \in BOOLEAN :
               IF found THEN EnterStage(r, k, s, stream[r], "Backing-Up")
               ELSE FailSession(r, k, s, "false", "DeviceNotFound")
       \/ /\ k = "flash" /\ s.stage = "Backing-Up"
          \* a backup that is unavailable is a warning, not a failure: the
          \* session goes on either way
          /\ EnterStage(r, k, s, stream[r], "Verifying")
       \/ /\ k = "flash" /\ s.stage = "Verifying"
          /\ \E compatible \in BOOLEAN :
               IF compatible THEN EnterStage(r, k, s, stream[r], "Flashing")
               ELSE FailSession(r, k, s, "false", "IncompatibleFirmware")
       \/ /\ k = "flash" /\ s.stage = "Flashing"
          /\ \E out \in SessionOutcomes, how \in FailureModes(k) :
               LET res == flashRadio(s.path, s.dev, out).result IN
               IF res.success THEN EnterStage(r, k, s, stream[r], "Confirming")
               ELSE FailSession(r, k, s, how, res.error)
       \/ /\ k = "flash" /\ s.stage = "Confirming"
          /\ \E out \in SessionOutcomes :
               LET res == executeCommand(<<"getvar", "version-baseband">>, s.dev, out).result IN
               IF res.success
               THEN CompleteSession(r, k, [s EXCEPT !.progress = StageProgress("Complete")])
               ELSE FailSession(r, k, s, "false", res.error)
       \/ /\ k = "download" /\ s.stage = "Downloading"
          /\ \E fetched \in BOOLEAN :
               IF fetched
               THEN /\ sess' = [sess EXCEPT ![r] = [s EXCEPT !.stage = "Verifying",
                                                             !.progress = 100]]
                    /\ stream' = [stream EXCEPT ![r] =
                                    Callback(k, @, closed[r], StageEvent("Downloading", 100))]
                    /\ emitted' = [emitted EXCEPT ![r] =
                                     Append(@, CallbackArg(k, StageEvent("Downloading", 100)))]
                    /\ UNCHANGED <<issued, closed>>
               ELSE FailSession(r, k, s, "throw", "NetworkError")
       \/ /\ k = "download" /\ s.stage = "Verifying"
          /\ \E sum \in Checksums :
               IF sum = s.declared
               THEN CompleteSession(r, k, [s EXCEPT !.computed = sum])
               ELSE FailSession(r, k, [s EXCEPT !.computed = sum], "throw", "ChecksumMismatch")

\* The stage's timeout ends a stage whose operation has not answered.
StageTimeout(r) ==
    /\ Running(r)
    /\ UNCHANGED <<kind, resp, threw, fb, api, mgr, wait, cache>>
    /\ FailSession(r, kind[r], sess[r], "throw", "StageTimeout")

\* One more progress callback inside the current stage.
ExtraProgress(r) ==
    /\ Running(r)
    /\ sess[r].extra < MaxExtra
    /\ sess[r].stage \in {"Flashing", "Downloading"}
    /\ LET p == IF kind[r] = "flash" THEN sess[r].progress + 5 ELSE 50 IN
       /\ sess' = [sess EXCEPT ![r].extra = @ + 1, ![r].progress = p]
       /\ stream' = [stream EXCEPT ![r] =
                       Callback(kind[r], @, closed[r], StageEvent(sess[r].stage, p))]
       /\ emitted' = [emitted EXCEPT ![r] =
                        Append(@, CallbackArg(kind[r], StageEvent(sess[r].stage, p)))]
    /\ UNCHANGED <<kind, resp, closed, issued, threw, fb, api, mgr, wait, cache>>

\* The operation a stage gave up on answers at last and the orchestrator
\* calls the progress callback of a stream that is closed by then.
LateProgress(r) ==
    /\ kind[r] \in {"flash", "download"}
    /\ closed[r]
    /\ sess[r].lastError = "StageTimeout"
    /\ ~threw[r]
    /\ stream' = [stream EXCEPT ![r] =
                    Callback(kind[r], @, closed[r], StageEvent(sess[r].stage, sess[r].progress))]
    /\ emitted' = [emitted EXCEPT ![r] =
                     Append(@, CallbackArg(kind[r], StageEvent(sess[r].stage, sess[r].progress)))]
    /\ threw' = [threw EXCEPT ![r] = EnqueueThrows(closed[r])]
    /\ UNCHANGED <<kind, resp, sess, closed, issued, fb, api, mgr, wait, cache>>

Next ==
    \/ \E r \in Reqs, path \in FirmwarePaths, d \in Devices : PostFlash(r, path, d)
    \/ \E r \in Reqs, url \in DownloadUrls : PostDownload(r, url)
    \/ \E r \in Reqs : StageAnswer(r)
    \/ \E r \in Reqs : StageTimeout(r)
    \/ \E r \in Reqs : ExtraProgress(r)
    \/ \E r \in Reqs : LateProgress(r)

Spec == Init /\ [][Next]_vars

\* ---------------------------------------------------------- fastboot route

\* A variant that fills in a value for a field the client left out.
GetDefaulted(body, f) ==
    IF f \in DOMAIN body /\ body[f] # <<>> THEN body[f] ELSE <<"default">>

\* A field of the request body; a field the client left out is undefined,
\* which the handler's tests treat like the empty string.
Get(body, f) == IF f \in DOMAIN body THEN body[f] ELSE <<>>

FileStates == {"missing", "empty", "nonempty"}
FbDevices == {NoDevice, "d1"}
Partitions == { <<>>, <<"radio">>, <<"boot", ";", "reboot">> }
ImagePaths == { <<>>, <<"/fw/radio.img">>, <<"/fw/x.img", "\"", ";", "reboot", "\"">> }
Filesystems == { <<>>, <<"f2fs">>, <<"ext4", "|", "sh">> }
Modes == { <<>>, <<"system">>, <<"bootloader">>, <<"recovery", "&", "reboot">> }
RawCommands == { <<>>, <<"getvar", "all">> }

\* The body field that carries the image of each single-image flash action.
PathField(action) ==
    CASE action = "flash-recovery" -> "recoveryPath"
      [] action = "flash-boot" -> "bootPath"
      [] action = "flash-system" -> "systemPath"
      [] action = "flash-radio" -> "radioPath"
      [] action = "flash-modem" -> "modemPath"
      [] OTHER -> "imagePath"

FixedFlashActions ==
    {"flash-recovery", "flash-boot", "flash-system", "flash-radio", "flash-modem"}

Bodies ==
    { [action |-> a, deviceId |-> d] :
        a \in {"unlock-bootloader", "lock-bootloader", "continue", "bogus"}, d \in FbDevices }
    \cup { [action |-> "execute", deviceId |-> d, command |-> c] :
             d \in FbDevices, c \in RawCommands }
    \cup { [action |-> "flash-partition", deviceId |-> d, partition |-> pt, imagePath |-> i] :
             d \in FbDevices, pt \in Partitions, i \in ImagePaths }
    \cup { [x \in {"action", "deviceId", PathField(a)} |->
              CASE x = "action" -> a [] x = "deviceId" -> d [] OTHER -> i] :
             a \in FixedFlashActions, d \in FbDevices, i \in ImagePaths }
    \cup { [action |-> "erase-partition", deviceId |-> d, erasePartition |-> pt] :
             d \in FbDevices, pt \in Partitions }
    \cup { [action |-> "format-partition", deviceId |-> d, formatPartition |-> pt,
            filesystem |-> f] : d \in FbDevices, pt \in Partitions, f \in Filesystems }
    \cup { [action |-> "reboot", deviceId |-> d, mode |-> m] : d \in FbDevices, m \in Modes }
    \cup { [action |-> "get-partition-info", deviceId |-> d, infoPartition |-> pt] :
             d \in FbDevices, pt \in Partitions }
    \cup { [action |-> "validate-image", deviceId |-> d, validateImagePath |-> i] :
             d \in FbDevices, i \in ImagePaths }

\* NextResponse.json of a command result: success, output and error (left
\* out by JSON when undefined), plus the fields the action adds.
ResultJson(x, more) ==
    [ran |-> x.ran, validated |-> <<>>,
     response |-> [type |-> "json", status |-> 200] @@ x.result @@ more]

BadRequest(message) ==
    [ran |-> <<>>, validated |-> <<>>, response |-> JsonError(400, message)]

NoMore == [n \in {} |-> n]

\* The flash action of a fixed partition: the required-path test, then the
\* manager's flash of that partition.
FixedFlash(action, path, deviceId, out) ==
    CASE action = "flash-recovery" ->
            IF path = <<>> THEN BadRequest("Recovery image path is required")
            ELSE ResultJson(flashRecovery(path, deviceId, out), NoMore)
      [] action = "flash-boot" ->
            IF path = <<>> THEN BadRequest("Boot image path is required")
            ELSE ResultJson(flashBoot(path, deviceId, out), NoMore)
      [] action = "flash-system" ->
            IF path = <<>> THEN BadRequest("System image path is required")
            ELSE ResultJson(flashSystem(path, deviceId, out), NoMore)
      [] action = "flash-radio" ->
            IF path = <<>> THEN BadRequest("Radio image path is required")
            ELSE ResultJson(flashRadio(path, deviceId, out), NoMore)
      [] action = "flash-modem" ->
            IF path = <<>> THEN BadRequest("Modem image path is required")
            ELSE ResultJson(flashModem(path, deviceId, out), NoMore)

\* POST of the fastboot route: what it runs, which images it validated and
\* what it answers.
FastbootPost(body, out, file) ==
    LET action == body.action
        deviceId == body.deviceId
    IN
    CASE action = "execute" ->
            IF Get(body, "command") = <<>> THEN BadRequest("Command is required")
            ELSE ResultJson(executeCommand(body.command, deviceId, out), NoMore)
      [] action = "unlock-bootloader" ->
            ResultJson(unlockBootloader(deviceId, out),
                       [message |-> "Please confirm bootloader unlock on your device"])
      [] action = "lock-bootloader" -> ResultJson(lockBootloader(deviceId, out), NoMore)
      [] action = "flash-partition" ->
            IF Get(body, "partition") = <<>> \/ Get(body, "imagePath") = <<>>
            THEN BadRequest("Partition and image path are required")
            ELSE IF ~validateImage(file)
            THEN [ran |-> <<>>, validated |-> <<body.imagePath>>,
                  response |-> JsonError(400, "Invalid or missing image file")]
            ELSE [ResultJson(flashPartition(body.partition, body.imagePath, deviceId, out),
                             NoMore)
                  EXCEPT !.validated = <<body.imagePath>>]
      [] action \in FixedFlashActions ->
            FixedFlash(action, Get(body, PathField(action)), deviceId, out)
      [] action = "erase-partition" ->
            IF Get(body, "erasePartition") = <<>> THEN BadRequest("Partition name is required")
            ELSE ResultJson(erasePartition(body.erasePartition, deviceId, out), NoMore)
      [] action = "format-partition" ->
            IF Get(body, "formatPartition") = <<>> THEN BadRequest("Partition name is required")
            ELSE ResultJson(formatPartition(body.formatPartition,
                                            IF Get(body, "filesystem") # <<>>
                                            THEN body.filesystem ELSE <<"ext4">>,
                                            deviceId, out), NoMore)
      [] action = "reboot" ->
            ResultJson(rebootDevice(IF Get(body, "mode") # <<>> THEN body.mode
                                    ELSE <<"system">>, deviceId, out), NoMore)
      [] action = "continue" -> ResultJson(continueBootloader(deviceId, out), NoMore)
      [] action = "get-partition-info" ->
            IF Get(body, "infoPartition") = <<>> THEN BadRequest("Partition name is required")
            ELSE LET x == getPartitionInfo(body.infoPartition, deviceId, out) IN
                 [ran |-> x.ran, validated |-> <<>>,
                  response |-> [type |-> "json", status |-> 200, success |-> TRUE,
                                partitionInfo |-> x.info]]
      [] action = "validate-image" ->
            IF Get(body, "validateImagePath") = <<>> THEN BadRequest("Image path is required")
            ELSE [ran |-> <<>>, validated |-> <<body.validateImagePath>>,
                  response |-> [type |-> "json", status |-> 200, success |-> TRUE,
                                valid |-> validateImage(file),
                                message |-> IF validateImage(file) THEN "Image file is valid"
                                            ELSE "Image file is invalid or missing"]]
      [] OTHER -> BadRequest("Invalid action")

\* The fastboot route handles one POST: the transport's outcome and the
\* state of the image file are the environment's.
FbPost(body, out, file) ==
    /\ fb = NoFastboot
    /\ fb' = [action |-> body.action, body |-> body, out |-> out, file |-> file]
             @@ FastbootPost(body, out, file)
    /\ UNCHANGED <<kind, resp, sess, stream, emitted, closed, issued, threw, api, mgr, wait, cache>>

\* The response has been sent.
FbDone ==
    /\ fb # NoFastboot
    /\ fb' = NoFastboot
    /\ UNCHANGED <<kind, resp, sess, stream, emitted, closed, issued, threw, api, mgr, wait, cache>>

FastbootNext ==
    \/ \E body \in Bodies, out \in ExecOutcomes, file \in FileStates : FbPost(body, out, file)
    \/ FbDone

FastbootSpec == Init /\ [][FastbootNext]_vars

\* ------------------------------------------- the routes' other JSON actions

\* A call a handler makes into a manager library, with the arguments it passes.
LibCall(fn, args) == [fn |-> fn, args |-> args]

\* What a library call can do to its caller: return, or throw.
LibOutcomes == {"ok", "null", "throw"}


\* NextResponse.json({ success: false, error }, { status: 400 }) returned
\* before any library call.
ApiBad(message) == [calls |-> <<>>, response |-> JsonError(400, message)]

\* The handler called the library (`calls`) and answers with `fields`, or
\* the library threw and the handler's catch answers 500.
ApiAnswer(calls, lib, fields) ==
    [calls |-> calls,
     response |-> IF lib = "throw" THEN JsonError(500, "library error")
                  ELSE [type |-> "json", status |-> 200, success |-> TRUE] @@ fields]

\* POST of the device route.
DevicePost(body, lib) ==
    LET action == body.action
        codename == Get(body, "codename")
        operation == Get(body, "operation")
    IN
    CASE action = "get-support" ->
            IF codename = <<>> THEN ApiBad("Device codename is required")
            ELSE ApiAnswer(<<LibCall("getDeviceSupport", <<codename>>),
                             LibCall("isDeviceSupported", <<codename>>)>>, lib,
                           [deviceSupport |-> "support", isSupported |-> TRUE])
      [] action = "validate-operation" ->
            IF operation = <<>> THEN ApiBad("Operation type is required")
            ELSE ApiAnswer(<<LibCall("validateDeviceForOperation", <<operation>>)>>, lib,
                           [validation |-> "validation"])
      [] action = "get-warnings" ->
            IF codename = <<>> THEN ApiBad("Device codename is required")
            ELSE ApiAnswer(<<LibCall("getWarningMessages", <<codename>>)>>, lib,
                           [warnings |-> "warnings"])
      [] OTHER -> ApiBad("Invalid action")

\* GET of the device route; the handler reads `action` only.
DeviceGet(params, lib) ==
    LET action == IF "action" \in DOMAIN params THEN params.action ELSE "detect" IN
    CASE action = "detect" ->
            ApiAnswer(<<LibCall("detectDevice", <<>>)>>, lib,
                      [deviceInfo |-> "info", connected |-> TRUE])
      [] action = "is-oneplus" ->
            ApiAnswer(<<LibCall("deviceDetectionManager.isOnePlusDevice", <<>>)>>, lib,
                      [isOnePlus |-> TRUE])
      [] action = "supported-devices" ->
            ApiAnswer(<<>>, "ok", [supportedDevices |-> "list"])
      [] OTHER -> ApiBad("Invalid action")

\* What 'search' passes to searchFirmware: codename, region || undefined,
\* version || undefined, and officialOnly, true only for the text 'true'.
SearchArgsAnyOrigin(params) ==
    <<Get(params, "codename"), Get(params, "region"), Get(params, "version"), FALSE>>

SearchArgs(params) ==
    <<Get(params, "codename"), Get(params, "region"), Get(params, "version"),
      Get(params, "officialOnly") = <<"true">> >>

\* What 'compatible' passes to getCompatibleFirmware: codename and
\* currentVersion || undefined.
CompatibleArgsNoVersion(params) == <<Get(params, "codename"), <<>> >>

CompatibleArgs(params) == <<Get(params, "codename"), Get(params, "currentVersion")>>

\* GET of the radio search route.  `found` is the array the library hands
\* back to 'search' (as the firmware of its result, with its length as
\* totalCount) and to 'compatible'.
SearchGet(params, lib, found) ==
    LET action == IF "action" \in DOMAIN params THEN params.action ELSE "search"
        codename == Get(params, "codename")
    IN
    CASE action = "search" ->
            IF codename = <<>> THEN ApiBad("Device codename is required")
            ELSE ApiAnswer(<<LibCall("searchFirmware", SearchArgs(params))>>, lib,
                           [firmware |-> found, totalCount |-> Len(found)])
      [] action = "popular" ->
            IF codename = <<>> THEN ApiBad("Device codename is required")
            ELSE ApiAnswer(<<LibCall("getPopularFirmware", <<codename>>)>>, lib,
                           [firmware |-> <<>>, totalCount |-> 0])
      [] action = "latest" ->
            IF codename = <<>> THEN ApiBad("Device codename is required")
            ELSE ApiAnswer(<<LibCall("getLatestFirmware", <<codename>>)>>, lib,
                           [firmware |-> "latest"])
      [] action = "compatible" ->
            IF codename = <<>> THEN ApiBad("Device codename is required")
            ELSE ApiAnswer(<<LibCall("getCompatibleFirmware", CompatibleArgs(params))>>, lib,
                           [firmware |-> found, totalCount |-> Len(found)])
      [] action = "check-updates" ->
            IF codename = <<>> THEN ApiBad("Device codename is required")
            ELSE IF Get(params, "currentVersion") = <<>>
            THEN ApiBad("Current version is required for update check")
            ELSE ApiAnswer(<<LibCall("checkForUpdates",
                                     <<params.currentVersion, codename>>)>>, lib,
                           [hasUpdate |-> FALSE])
      [] action = "validate-url" ->
            IF Get(params, "url") = <<>> THEN ApiBad("URL is required")
            ELSE ApiAnswer(<<LibCall("validateFirmwareUrl", <<params.url>>)>>, lib,
                           [valid |-> TRUE, message |-> "URL is accessible"])
      [] OTHER -> ApiBad("Invalid action")

\* POST of the radio flash route, apart from its streaming action 'flash'.
RadioFlashPost(body, lib) ==
    LET action == body.action
        deviceId == Get(body, "deviceId")
    IN
    CASE action = "get-current-version" ->
            ApiAnswer(<<LibCall("getCurrentRadioVersion", <<deviceId>>)>>, lib,
                      [currentVersion |-> "version"])
      [] action = "backup" ->
            \* success: !!backupPath
            IF lib = "null"
            THEN [calls |-> <<LibCall("backupCurrentRadio", <<deviceId>>)>>,
                  response |-> [type |-> "json", status |-> 200, success |-> FALSE,
                                backupPath |-> Null,
                                message |-> "Backup failed - requires root access"]]
            ELSE ApiAnswer(<<LibCall("backupCurrentRadio", <<deviceId>>)>>, lib,
                           [backupPath |-> "/backup/radio.img",
                            message |-> "Radio backup created"])
      [] action = "download" ->
            IF Get(body, "firmwareId") = <<>> THEN ApiBad("Firmware ID is required")
            ELSE [calls |-> <<>>,
                  response |-> JsonError(501, "Download functionality not yet implemented")]
      [] OTHER -> ApiBad("Invalid action")

\* GET of the radio flash route.
RadioFlashGet(params, lib) ==
    LET action == IF "action" \in DOMAIN params THEN params.action ELSE "" IN
    CASE action = "current-version" ->
            ApiAnswer(<<LibCall("getCurrentRadioVersion", <<Get(params, "deviceId")>>)>>, lib,
                      [currentVersion |-> "version"])
      [] action = "initialize-cache" ->
            ApiAnswer(<<LibCall("initializeCache", <<>>)>>, lib,
                      [message |-> "Cache initialized"])
      [] action = "clear-cache" ->
            ApiAnswer(<<LibCall("clearCache", <<>>)>>, lib, [message |-> "Cache cleared"])
      [] OTHER -> ApiBad("Invalid action")

\* ------------------------------------- radio search route: search-advanced

\* Text whose characters matter is a sequence of one-character strings.
\* Position of a character in the collation String.prototype.localeCompare
\* uses: punctuation before digits, digits in order.
CharRank(c) ==
    CASE c = "." -> 0
      [] c = "0" -> 1 [] c = "1" -> 2 [] c = "2" -> 3 [] c = "3" -> 4 [] c = "4" -> 5
      [] c = "5" -> 6 [] c = "6" -> 7 [] c = "7" -> 8 [] c = "8" -> 9 [] c = "9" -> 10
      [] OTHER -> 11

\* a.localeCompare(b): the strings compared character by character, a
\* proper prefix before the longer string.
RECURSIVE localeCompare(_, _)
localeCompare(a, b) ==
    IF a = <<>> /\ b = <<>> THEN 0
    ELSE IF a = <<>> THEN -1
    ELSE IF b = <<>> THEN 1
    ELSE IF CharRank(Head(a)) < CharRank(Head(b)) THEN -1
    ELSE IF CharRank(Head(a)) > CharRank(Head(b)) THEN 1
    ELSE localeCompare(Tail(a), Tail(b))

\* The records firmwareDatabaseManager.searchFirmware can hand back.
Catalog ==
    { [version |-> <<"1", "3", ".", "2">>, region |-> <<"E", "U">>, buildDate |-> 2,
       size |-> 50],
      [version |-> <<"1", "3", ".", "1", "0">>, region |-> <<"E", "U">>, buildDate |-> 3,
       size |-> 40],
      [version |-> <<"1", "4", ".", "0">>, region |-> <<"U", "S">>, buildDate |-> 1,
       size |-> 60] }

\* Records one search hands back.
MaxFound == 2

RECURSIVE ListsOf(_, _)
ListsOf(S, n) ==
    IF n = 0 THEN { <<>> }
    ELSE ListsOf(S, n - 1)
         \cup { Append(l, x) : l \in { m \in ListsOf(S, n - 1) : Len(m) = n - 1 }, x \in S }

\* One search result: records of the catalog, none twice.
FoundLists ==
    { l \in ListsOf(Catalog, MaxFound) : \A i, j \in DOMAIN l : i # j => l[i] # l[j] }

\* The comparator of filteredResults.sort: the switch on sortBy.
SortComparator(sortBy, a, b) ==
    CASE sortBy = <<"version">> -> localeCompare(b.version, a.version)
      [] sortBy = <<"date">> -> b.buildDate - a.buildDate
      [] sortBy = <<"size">> -> b.size - a.size
      [] OTHER -> 0

\* Array.prototype.sort(compare): a stable sort by the comparator.
RECURSIVE InsertSorted(_, _, _)
InsertSorted(x, sorted, sortBy) ==
    IF sorted = <<>> THEN <<x>>
    ELSE IF SortComparator(sortBy, Head(sorted), x) <= 0
    THEN <<Head(sorted)>> \o InsertSorted(x, Tail(sorted), sortBy)
    ELSE <<x>> \o sorted

RECURSIVE Sort(_, _)
Sort(list, sortBy) ==
    IF list = <<>> THEN <<>>
    ELSE InsertSorted(list[Len(list)], Sort(SubSeq(list, 1, Len(list) - 1), sortBy), sortBy)

\* Array.prototype.filter
RECURSIVE Filter(_, _)
Filter(list, query) ==
    IF list = <<>> THEN <<>>
    ELSE LET fw == Head(list)
             keep == \/ includes(toLowerCase(fw.version), toLowerCase(query))
                     \/ includes(toLowerCase(fw.region), toLowerCase(query))
         IN (IF keep THEN <<fw>> ELSE <<>>) \o Filter(Tail(list), query)

\* The body of 'search-advanced' after the search: filter by query, sort
\* by sortBy, cut to limit.  The records carry no changelog.
SearchAdvanced(found, query, sortBy, limit) ==
    LET filtered == IF query # <<>> THEN Filter(found, query) ELSE found
        sorted == IF sortBy # <<>> THEN Sort(filtered, sortBy) ELSE filtered
    IN IF limit > 0 /\ limit < Len(sorted) THEN SubSeq(sorted, 1, limit) ELSE sorted


\* What 'search-advanced' passes to searchFirmware: codename, region,
\* version and officialOnly || false.
SearchAdvancedArgs(body) ==
    <<Get(body, "codename"), Get(body, "region"), Get(body, "version"),
      IF "officialOnly" \in DOMAIN body THEN body.officialOnly ELSE FALSE>>

\* The array searchFirmware handed back, as 'search-advanced' leaves it:
\* filter builds a new array and slice another, sort orders the array it is
\* called on, which without a query is the library's own.
SortedInPlace(found, query, sortBy) ==
    IF query = <<>> /\ sortBy # <<>> THEN Sort(found, sortBy) ELSE found

\* POST of the radio search route, apart from its streaming action 'download'.
SearchPost(body, lib, found) ==
    LET action == body.action
        codename == Get(body, "codename")
    IN
    CASE action = "get-details" ->
            IF Get(body, "firmwareId") = <<>> THEN ApiBad("Firmware ID is required")
            ELSE ApiAnswer(<<LibCall("getFirmwareDetails", <<body.firmwareId>>)>>, lib,
                           [firmware |-> "details"])
      [] action = "search-advanced" ->
            IF codename = <<>> THEN ApiBad("Device codename is required")
            ELSE LET results == SearchAdvanced(found, body.query, body.sortBy, body.limit) IN
                 ApiAnswer(<<LibCall("searchFirmware", SearchAdvancedArgs(body))>>, lib,
                           [firmware |-> results, totalCount |-> Len(results),
                            hasMore |-> FALSE])
      [] OTHER -> ApiBad("Invalid action")

\* ------------------------------------------------------ requests and state

\* The requests the handlers are given: every action of each route and an
\* unknown one, each parameter left out (empty) or given.
DevicePostBodies ==
    { [action |-> a, codename |-> c, operation |-> o] :
        a \in {"get-support", "validate-operation", "get-warnings", "bogus"},
        c \in { <<>>, <<"guacamole">> }, o \in { <<>>, <<"radio_flash">> } }

DeviceGetParams ==
    { [deviceId |-> d] : d \in { <<>>, <<"d1">> } }
    \cup { [action |-> a, deviceId |-> d] :
             a \in {"detect", "is-oneplus", "supported-devices", "bogus"},
             d \in { <<>>, <<"d1">> } }

SearchGetParams ==
    { [codename |-> c] : c \in { <<>>, <<"guacamole">> } }
    \cup { [action |-> a, codename |-> c, currentVersion |-> v, url |-> u] :
             a \in {"search", "popular", "latest", "compatible", "check-updates",
                    "validate-url", "bogus"},
             c \in { <<>>, <<"guacamole">> },
             v \in { <<>>, <<"1", "3", ".", "2">> },
             u \in { <<>>, <<"https://fw.example/radio.zip">> } }

SearchPostBodies ==
    { [action |-> a, firmwareId |-> f, codename |-> c] :
        a \in {"get-details", "bogus"}, f \in { <<>>, <<"fw-1">> },
        c \in { <<>>, <<"guacamole">> } }
    \cup { [action |-> "search-advanced", codename |-> c, query |-> q, sortBy |-> k,
            limit |-> n] :
             c \in { <<>>, <<"guacamole">> }, q \in { <<>>, <<"e", "u">> },
             k \in { <<>>, <<"version">>, <<"date">>, <<"size">>, <<"name">> },
             n \in {0, 1} }

RadioFlashPostBodies ==
    { [action |-> a, deviceId |-> d, firmwareId |-> f] :
        a \in {"get-current-version", "backup", "download", "bogus"},
        d \in { <<>>, <<"d1">> }, f \in { <<>>, <<"fw-1">> } }

RadioFlashGetParams ==
    { [deviceId |-> d] : d \in { <<>>, <<"d1">> } }
    \cup { [action |-> a, deviceId |-> d] :
             a \in {"current-version", "initialize-cache", "clear-cache", "bogus"},
             d \in { <<>>, <<"d1">> } }

\* No request is being handled by any route.
Quiet ==
    /\ api = NoApi
    /\ fb = NoFastboot
    /\ \A r \in Reqs : kind[r] = "free"

\* A route's handler runs on one request: what it called and answered.  The
\* request is taken when no other is being handled (Quiet).
ApiHandled(route, method, body, handled) ==
    /\ api' = [route |-> route, method |-> method, body |-> body] @@ handled
    /\ UNCHANGED <<kind, resp, sess, stream, emitted, closed, issued, threw, fb, mgr, wait, cache>>

\* The response has been sent.
ApiDone ==
    /\ api # NoApi
    /\ api' = NoApi
    /\ UNCHANGED <<kind, resp, sess, stream, emitted, closed, issued, threw, fb, mgr, wait, cache>>

\* Every route takes requests; a handler's parameter checks read the
\* request only, so the routes are exercised one request at a time, and the
\* streaming requests last.
ApiNext ==
    \/ \E body \in DevicePostBodies, lib \in LibOutcomes :
         /\ Quiet
         /\ ApiHandled("device", "POST", body, DevicePost(body, lib))
    \/ \E params \in DeviceGetParams, lib \in LibOutcomes :
         /\ Quiet
         /\ ApiHandled("device", "GET", params, DeviceGet(params, lib))
    \/ \E params \in SearchGetParams, lib \in LibOutcomes, found \in FoundLists :
         /\ Quiet
         /\ ApiHandled("search", "GET", params, SearchGet(params, lib, found))
    \/ \E body \in SearchPostBodies, lib \in LibOutcomes, found \in FoundLists :
         /\ Quiet
         /\ ApiHandled("search", "POST", body,
                       SearchPost(body, lib, found) @@ [found |-> found])
    \/ \E body \in RadioFlashPostBodies, lib \in LibOutcomes :
         /\ Quiet
         /\ ApiHandled("flash", "POST", body, RadioFlashPost(body, lib))
    \/ \E params \in RadioFlashGetParams, lib \in LibOutcomes :
         /\ Quiet
         /\ ApiHandled("flash", "GET", params, RadioFlashGet(params, lib))
    \/ ApiDone
    \/ /\ Quiet
       /\ \E body \in Bodies, out \in ExecOutcomes, file \in FileStates : FbPost(body, out, file)
    \/ FbDone
    \/ /\ api = NoApi /\ fb = NoFastboot
       /\ \E r \in Reqs, path \in FirmwarePaths, d \in Devices : PostFlash(r, path, d)
    \/ /\ api = NoApi /\ fb = NoFastboot
       /\ \E r \in Reqs, url \in DownloadUrls : PostDownload(r, url)

ApiSpec == Init /\ [][ApiNext]_vars

\* ------------------------------------------- FastbootManager, called directly

\* Values a variable can have, character by character.
VariableValues ==
    { <<"y", "e", "s">>, <<"k", "e", "b">>, <<"O", "P", "5">>, <<"N", "o", "r", "d">>,
      <<"O", "n", "e", "P", "l", "u", "s">> }

\* The variable's name in another case.
OtherCase(variable) ==
    CASE variable = "product" -> "Product"
      [] variable = "brand" -> "Brand"
      [] OTHER -> "Secure"

\* What `fastboot getvar ${variable}` can come back with: the entry on the
\* second channel or on the first, an entry of a variable whose name ends in
\* this one's, an entry without a value, no entry, the name in another case,
\* a failing command.
GetvarOutcomes(variable) ==
    { [ok |-> TRUE, stdout |-> <<>>,
       stderr |-> <<variable, ":", " ">> \o v \o <<" ", "\n", "Finished.">>] :
        v \in VariableValues }
    \cup
    { [ok |-> TRUE, stdout |-> <<variable, ":", " ", "y", "e", "s">>,
       stderr |-> <<"\n", "Finished.">>],
      [ok |-> TRUE, stdout |-> <<>>,
       stderr |-> <<"hw-", variable, ":", " ", "O", "P", "5", "\n", "Finished.">>],
      [ok |-> TRUE, stdout |-> <<>>,
       stderr |-> <<variable, ":", " ", "\n", "Finished.">>],
      [ok |-> TRUE, stdout |-> <<>>, stderr |-> <<"Finished.">>],
      [ok |-> TRUE, stdout |-> <<>>,
       stderr |-> <<OtherCase(variable), ":", " ", "y", "e", "s", "\n", "Finished.">>],
      [ok |-> FALSE, message |-> "FAILED (remote: GetVar Variable Not found)"] }

\* The outcomes the five reads of getBootloaderInfo are checked with: the
\* variable answers yes, or the command fails.
BootloaderOutcome(variable, answers) ==
    IF answers
    THEN [ok |-> TRUE, stdout |-> <<>>,
          stderr |-> <<variable, ":", " ", "y", "e", "s", "\n", "Finished.">>]
    ELSE [ok |-> FALSE, message |-> "FAILED (remote: GetVar Variable Not found)"]

\* The devices in bootloader mode, in the order `fastboot devices` lists them.
AttachedLists == { <<>>, <<"d1">>, <<"d2">>, <<"d1", "d2">> }


\* A manager method is called and returns; its callers take one call at a
\* time (mgr = NoCall).
MgrCalled(fn, deviceId, attached, more) ==
    /\ mgr' = [fn |-> fn, deviceId |-> deviceId, attached |-> attached] @@ more
    /\ UNCHANGED <<kind, resp, sess, stream, emitted, closed, issued, threw, fb, api, wait, cache>>

ExecuteCall(command, deviceId, attached, out) ==
    /\ mgr = NoCall
    /\ LET x == executeCommand(command, deviceId, out) IN
       MgrCalled("executeCommand", deviceId, attached,
                 [ran |-> x.ran, result |-> x.result, out |-> out,
                  error |-> IF x.result.success THEN "" ELSE x.result.error])

GetVariableCall(variable, deviceId, attached, out) ==
    /\ mgr = NoCall
    /\ LET x == getVariable(variable, devicePrefix(deviceId), out) IN
       MgrCalled("getVariable", deviceId, attached,
                 [ran |-> x.ran, result |-> x.value, variable |-> variable, out |-> out,
                  error |-> ""])

CodenameCall(deviceId, attached, out) ==
    /\ mgr = NoCall
    /\ LET x == getDeviceCodename(deviceId, out) IN
       MgrCalled("getDeviceCodename", deviceId, attached,
                 [ran |-> x.ran, result |-> x.value, variable |-> "product", out |-> out,
                  error |-> ""])

BootloaderInfoCall(deviceId, attached, ok, outs) ==
    /\ mgr = NoCall
    /\ LET x == getBootloaderInfo(deviceId, attached, ok, outs) IN
       MgrCalled("getBootloaderInfo", deviceId, attached,
                 [ran |-> x.ran, result |-> x.info, error |-> ""])

IsOnePlusCall(deviceId, attached, outProduct, outBrand) ==
    /\ mgr = NoCall
    /\ LET x == isOnePlusDevice(deviceId, outProduct, outBrand) IN
       MgrCalled("isOnePlusDevice", deviceId, attached,
                 [ran |-> x.ran, result |-> x.result, error |-> "",
                  product |-> getVariable("product", devicePrefix(deviceId), outProduct).value,
                  brand |-> getVariable("brand", devicePrefix(deviceId), outBrand).value,
                  outProduct |-> outProduct, outBrand |-> outBrand])

\* The caller has the result.
MgrDone ==
    /\ mgr # NoCall
    /\ mgr' = NoCall
    /\ UNCHANGED <<kind, resp, sess, stream, emitted, closed, issued, threw, fb, api, wait, cache>>

\* Each method is called without a deviceId and with one.
MgrNext ==
    \/ \E command \in { <<"erase", "radio">>, <<"getvar", "all">> },
          d \in {NoDevice, "d2"}, attached \in AttachedLists, out \in ExecOutcomes :
         ExecuteCall(command, d, attached, out)
    \/ \E variable \in {"product", "secure"}, d \in {NoDevice, "d2"},
          attached \in AttachedLists :
         \E out \in GetvarOutcomes(variable) : GetVariableCall(variable, d, attached, out)
    \/ \E d \in {NoDevice, "d2"}, attached \in AttachedLists,
          out \in GetvarOutcomes("product") : CodenameCall(d, attached, out)
    \/ \E d \in {NoDevice, "d2"}, attached \in AttachedLists, ok \in BOOLEAN :
         \E answers \in [1..5 -> BOOLEAN] :
           /\ mgr = NoCall
           /\ BootloaderInfoCall(d, attached, ok,
                                 [i \in 1..5 |->
                                    BootloaderOutcome(BootloaderVariables[i], answers[i])])
    \/ \E d \in {NoDevice, "d2"}, attached \in AttachedLists :
         \E outProduct \in GetvarOutcomes("product"), outBrand \in GetvarOutcomes("brand") :
           IsOnePlusCall(d, attached, outProduct, outBrand)
    \/ MgrDone

MgrSpec == Init /\ [][MgrNext]_vars

\* ------------------------------------------------------------ waitForDevice

\* setTimeout(resolve, 1000), in milliseconds
PollInterval == 1000

\* A variant that does not wait between two polls.
SleepEndAtOnce(from, late) == from + late

\* When the promise of setTimeout(resolve, 1000) made at `from` resolves.
SleepEnd(from, late) == from + PollInterval + late

\* waitForDevice(timeout) is called: const startTime = Date.now()
WaitCall(timeout) ==
    /\ wait = NoWait
    /\ wait' = [pc |-> "check", timeout |-> timeout, startTime |-> 0, now |-> 0,
                polls |-> <<>>, seen |-> <<>>, sleepFrom |-> 0, result |-> FALSE]
    /\ UNCHANGED <<kind, resp, sess, stream, emitted, closed, issued, threw, fb, api, mgr, cache>>

\* while (Date.now() - startTime < timeout): the next poll starts, or the
\* loop ends and the call returns false.
WaitCheck ==
    /\ wait.pc = "check"
    /\ wait' = IF wait.now - wait.startTime < wait.timeout
               THEN [wait EXCEPT !.pc = "polling", !.polls = Append(@, wait.now)]
               ELSE [wait EXCEPT !.pc = "returned", !.result = FALSE]
    /\ UNCHANGED <<kind, resp, sess, stream, emitted, closed, issued, threw, fb, api, mgr, cache>>

\* await this.getConnectedDevices() resolves after `took` milliseconds:
\* return true with a device listed, otherwise start the one-second timer.
WaitPolled(took, attached, ok) ==
    /\ wait.pc = "polling"
    /\ LET devices == getConnectedDevices(attached, ok).devices IN
       wait' = IF Len(devices) > 0
               THEN [wait EXCEPT !.pc = "returned", !.result = TRUE,
                                 !.now = @ + took, !.seen = Append(@, TRUE)]
               ELSE [wait EXCEPT !.pc = "sleeping", !.now = @ + took,
                                 !.sleepFrom = wait.now + took,
                                 !.seen = Append(@, FALSE)]
    /\ UNCHANGED <<kind, resp, sess, stream, emitted, closed, issued, threw, fb, api, mgr, cache>>

\* The timer fires and the loop goes round.
WaitTimer(late) ==
    /\ wait.pc = "sleeping"
    /\ wait' = [wait EXCEPT !.pc = "check", !.now = SleepEnd(wait.sleepFrom, late)]
    /\ UNCHANGED <<kind, resp, sess, stream, emitted, closed, issued, threw, fb, api, mgr, cache>>

\* The caller has the result.
WaitDone ==
    /\ wait.pc = "returned"
    /\ wait' = NoWait
    /\ UNCHANGED <<kind, resp, sess, stream, emitted, closed, issued, threw, fb, api, mgr, cache>>

\* A request the fastboot route can take while a waitForDevice call is
\* suspended in an await.
ContinueBodies == { b \in Bodies : b.action = "continue" }

\* Times are in milliseconds: the timeout asked for, the time one
\* `fastboot devices` takes, and how late a timer fires.
WaitNext ==
    \/ \E timeout \in {0, 1000, 2500} : WaitCall(timeout)
    \/ WaitCheck
    \/ \E took \in {0, 500, 1500}, attached \in AttachedLists, ok \in BOOLEAN :
         WaitPolled(took, attached, ok)
    \/ \E late \in {0, 500} : WaitTimer(late)
    \/ WaitDone
    \/ \E body \in ContinueBodies, out \in SessionOutcomes : FbPost(body, out, "missing")
    \/ FbDone

WaitSpec == Init /\ [][WaitNext]_vars

\* ------------------------------------------------------ the firmware catalog

\* The dot-separated segments of a version.
RECURSIVE Segments(_)
Segments(v) ==
    IF \A i \in DOMAIN v : v[i] # "." THEN <<v>>
    ELSE LET n == CHOOSE i \in DOMAIN v : v[i] = "." /\ \A j \in 1..(i - 1) : v[j] # "."
         IN <<SubSeq(v, 1, n - 1)>> \o Segments(SubSeq(v, n + 1, Len(v)))

\* The number a segment of digits writes.
RECURSIVE SegmentValue(_)
SegmentValue(seg) ==
    IF seg = <<>> THEN 0
    ELSE 10 * SegmentValue(SubSeq(seg, 1, Len(seg) - 1)) + (CharRank(seg[Len(seg)]) - 1)

\* The structured comparison of two lists of segments: -1, 0 or 1.
RECURSIVE CompareSegments(_, _)
CompareSegments(a, b) ==
    IF a = <<>> /\ b = <<>> THEN 0
    ELSE IF a = <<>> THEN -1
    ELSE IF b = <<>> THEN 1
    ELSE IF SegmentValue(Head(a)) < SegmentValue(Head(b)) THEN -1
    ELSE IF SegmentValue(Head(a)) > SegmentValue(Head(b)) THEN 1
    ELSE CompareSegments(Tail(a), Tail(b))

VersionCompare(a, b) == CompareSegments(Segments(a), Segments(b))

\* The records of the catalog's backing store, in the order it keeps them:
\* for guacamole three official EU records, one official US record and two
\* unofficial EU records that name another device as compatible; one
\* record of another device.
FirmwareDatabase ==
    << [id |-> "fw1", codename |-> <<"guacamole">>, version |-> <<"1", "0", ".", "5">>,
        region |-> <<"E", "U">>, buildDate |-> 1, size |-> 50, isOfficial |-> TRUE,
        compatibility |-> { <<"guacamole">> }],
       [id |-> "fw2", codename |-> <<"guacamole">>, version |-> <<"1", "1", ".", "0">>,
        region |-> <<"E", "U">>, buildDate |-> 2, size |-> 40, isOfficial |-> TRUE,
        compatibility |-> { <<"guacamole">>, <<"guacamoleb">> }],
       [id |-> "fw3", codename |-> <<"guacamole">>, version |-> <<"1", "1", ".", "1">>,
        region |-> <<"E", "U">>, buildDate |-> 3, size |-> 60, isOfficial |-> TRUE,
        compatibility |-> { <<"guacamole">> }],
       [id |-> "fw4", codename |-> <<"guacamole">>, version |-> <<"1", "2", ".", "0">>,
        region |-> <<"U", "S">>, buildDate |-> 5, size |-> 30, isOfficial |-> TRUE,
        compatibility |-> { <<"guacamole">> }],
       [id |-> "fw5", codename |-> <<"guacamole">>, version |-> <<"1", "1", ".", "5">>,
        region |-> <<"E", "U">>, buildDate |-> 4, size |-> 20, isOfficial |-> FALSE,
        compatibility |-> { <<"guacamoleb">> }],
       [id |-> "fw6", codename |-> <<"guacamole">>, version |-> <<"1", "2", ".", "1">>,
        region |-> <<"E", "U">>, buildDate |-> 6, size |-> 10, isOfficial |-> FALSE,
        compatibility |-> { <<"guacamoleb">> }],
       [id |-> "fw7", codename |-> <<"hotdog">>, version |-> <<"1", "2", ".", "0">>,
        region |-> <<"E", "U">>, buildDate |-> 5, size |-> 30, isOfficial |-> TRUE,
        compatibility |-> { <<"hotdog">> }] >>

\* searchFirmware(codename, region, version, officialOnly): the array cached
\* for these very parameters, else the records that pass every filter given,
\* in the store's order.
searchFirmware(stored, args) ==
    IF args \in DOMAIN stored THEN stored[args]
    ELSE SelectSeq(FirmwareDatabase,
                   LAMBDA fw : /\ fw.codename = args[1]
                               /\ args[2] # <<>> => fw.region = args[2]
                               /\ args[3] # <<>> => includes(fw.version, args[3])
                               /\ args[4] => fw.isOfficial)

\* The records of a list from the newest version to the oldest.
RECURSIVE NewestFirst(_)
NewestFirst(list) ==
    IF list = <<>> THEN <<>>
    ELSE LET newest == CHOOSE i \in DOMAIN list :
                         /\ \A j \in DOMAIN list :
                              VersionCompare(list[i].version, list[j].version) >= 0
                         /\ \A j \in 1..(i - 1) :
                              VersionCompare(list[j].version, list[i].version) < 0
         IN <<list[newest]>>
            \o NewestFirst(SubSeq(list, 1, newest - 1) \o SubSeq(list, newest + 1, Len(list)))

\* getCompatibleFirmware(codename, currentVersion): the records that name
\* the codename as compatible and, when a current version is given, are
\* strictly newer than it; newest first.
getCompatibleFirmware(args) ==
    NewestFirst(SelectSeq(FirmwareDatabase,
                          LAMBDA fw : /\ args[1] \in fw.compatibility
                                      /\ args[2] # <<>> =>
                                           VersionCompare(fw.version, args[2]) > 0))

\* A GET 'search' or 'compatible' request answered from the catalog; a
\* search leaves its result in the cache.  Taken when Quiet.
CatalogGet(params) ==
    LET found == IF params.action = "compatible" THEN getCompatibleFirmware(CompatibleArgs(params))
                 ELSE searchFirmware(cache, SearchArgs(params))
        handled == SearchGet(params, "ok", found)
    IN
    /\ api' = [route |-> "search", method |-> "GET", body |-> params] @@ handled
    /\ cache' = IF handled.calls # <<>> /\ params.action = "search"
                THEN [k \in DOMAIN cache \cup {SearchArgs(params)} |->
                        IF k = SearchArgs(params) THEN found ELSE cache[k]]
                ELSE cache
    /\ UNCHANGED <<kind, resp, sess, stream, emitted, closed, issued, threw, fb, mgr, wait>>

\* A 'search-advanced' request answered from the catalog.  The library hands
\* back the array it keeps in its cache (shared) or a copy of it; the
\* handler's sort reaches the cache in the first case.  Taken when Quiet.
CatalogPost(body, shared) ==
    LET args == SearchAdvancedArgs(body)
        found == searchFirmware(cache, args)
        handled == SearchPost(body, "ok", found)
        kept == IF shared THEN SortedInPlace(found, body.query, body.sortBy) ELSE found
    IN
    /\ api' = [route |-> "search", method |-> "POST", body |-> body] @@ handled
    /\ cache' = IF handled.calls # <<>>
                THEN [k \in DOMAIN cache \cup {args} |-> IF k = args THEN kept ELSE cache[k]]
                ELSE cache
    /\ UNCHANGED <<kind, resp, sess, stream, emitted, closed, issued, threw, fb, mgr, wait>>

\* clearCache, or every entry past its time to live.
ClearCache ==
    /\ Quiet
    /\ cache # [k \in {} |-> <<>>]
    /\ cache' = [k \in {} |-> <<>>]
    /\ UNCHANGED <<kind, resp, sess, stream, emitted, closed, issued, threw, fb, api, mgr, wait>>

\* Searches of one device's firmware, by region, version and origin, plain
\* and advanced, and compatibility queries, one request at a time.
CatalogNext ==
    \/ \E c \in { <<>>, <<"guacamole">> }, g \in { <<>>, <<"E", "U">> },
          o \in { <<>>, <<"true">>, <<"1">> } :
         /\ Quiet
         /\ CatalogGet([action |-> "search", codename |-> c, region |-> g,
                        officialOnly |-> o])
    \/ \E c \in { <<>>, <<"guacamole">> }, v \in { <<"1", "1">>, <<"1", "3">> } :
         /\ Quiet
         /\ CatalogGet([action |-> "search", codename |-> c, version |-> v])
    \/ \E c \in { <<>>, <<"guacamole">>, <<"hotdog">> },
          v \in { <<>>, <<"1", "1", ".", "0">>, <<"1", "2", ".", "0">>, <<"9", ".", "0">> } :
         /\ Quiet
         /\ CatalogGet([action |-> "compatible", codename |-> c, currentVersion |-> v])
    \/ \E c \in { <<>>, <<"guacamole">> }, g \in { <<>>, <<"E", "U">> }, o \in BOOLEAN,
          q \in { <<>>, <<"e", "u">> }, k \in { <<>>, <<"version">>, <<"size">> },
          n \in {0, 1}, shared \in BOOLEAN :
         /\ Quiet
         /\ CatalogPost([action |-> "search-advanced", codename |-> c, region |-> g,
                         officialOnly |-> o, query |-> q, sortBy |-> k, limit |-> n], shared)
    \/ ClearCache
    \/ ApiDone

CatalogSpec == Init /\ [][CatalogNext]_vars

\* ================================================================== claims

Streaming(r) == resp[r] = StreamResponse

\* The request holds a flash session that is neither Complete nor Failed.
Live(r) == kind[r] = "flash" /\ sess[r].stage \notin Terminal \cup {"Idle"}

\* A command that flashes the radio or the modem partition.
IsRadioFlash(cmd) ==
    \E i \in 1..(Len(cmd) - 1) : cmd[i] = "flash" /\ cmd[i + 1] \in {"radio", "modem"}

IsBackup(cmd) == cmd # <<>> /\ cmd[1] = "backup"

HasSuccess(e) == "success" \in DOMAIN e

\* ---- C1

C1_OnePerDevice ==
    \A r, q \in Reqs : (r # q /\ Live(r) /\ Live(q)) => sess[r].dev # sess[q].dev

\* A flash request arriving for a device whose session is live: it ends at
\* once with an error event, runs nothing and leaves every other request alone.
C1_RejectedStep ==
    \A r \in Reqs :
        ( /\ kind[r] = "free" /\ kind'[r] = "flash" /\ Streaming(r)'
          /\ \E q \in Reqs : Live(q) /\ sess[q].dev = sess'[r].dev )
        => /\ sess'[r].stage = "Idle"
           /\ issued'[r] = <<>>
           /\ closed'[r]
           /\ Len(stream'[r]) = 1
           /\ Payload(stream'[r][1]).success = FALSE
           /\ Payload(stream'[r][1]).error = "SessionAlreadyActive"
           /\ \A q \in Reqs \ {r} :
                /\ sess'[q] = sess[q] /\ stream'[q] = stream[q]
                /\ issued'[q] = issued[q] /\ closed'[q] = closed[q]

\* C1: at any time at most one flash session per deviceId is neither
\* Complete nor Failed; a flash request for a device with such a session is
\* rejected at once with an error, starts no flash operation and leaves the
\* existing session's stage and progress as they were.
C1_SingleSessionPerDevice == []C1_OnePerDevice /\ [][C1_RejectedStep]_vars

\* A request was rejected while the session it collided with is still in
\* the stage and at the progress it had.
C1_Witness ==
    \E r, q \in Reqs :
        /\ r # q /\ kind[r] = "flash" /\ closed[r]
        /\ sess[r].lastError = "SessionAlreadyActive"
        /\ Live(q) /\ sess[q].dev = sess[r].dev
        /\ sess[q].stage = "Flashing" /\ sess[q].progress = 60

\* ---- C2

BackupPrecedesFlash(cmds) ==
    \A i \in DOMAIN cmds :
        IsRadioFlash(cmds[i]) => \E j \in 1..(i - 1) : IsBackup(cmds[j])

\* C2: every radio/modem flash command that reaches the transport, from the
\* radio flash action or from the fastboot flash actions, is preceded by a
\* backup attempt made for the same request.
C2_BackupBeforeRadioFlash ==
    /\ \A r \in Reqs : BackupPrecedesFlash(issued[r])
    /\ fb # NoFastboot => BackupPrecedesFlash(fb.ran)

\* ---- C3

ChecksumMismatch(r) ==
    kind[r] = "download" /\ sess[r].computed # "" /\ sess[r].computed # sess[r].declared

FlashActions == FixedFlashActions \cup {"flash-partition"}

\* C4: a flash action runs at most one command, a flash command, and when
\* the transport fails that command the response is a failure carrying the
\* transport's message.
C4_NoRetry ==
    (fb # NoFastboot /\ fb.action \in FlashActions) =>
        /\ Len(fb.ran) <= 1
        /\ \A i \in DOMAIN fb.ran : \E j \in DOMAIN fb.ran[i] : fb.ran[i][j] = "flash"
        /\ (fb.ran # <<>> /\ ~fb.out.ok) =>
              /\ fb.response.success = FALSE
              /\ fb.response.error = fb.out.message

C4_Witness ==
    /\ fb # NoFastboot
    /\ fb.action = "flash-modem"
    /\ Len(fb.ran) = 1
    /\ ~fb.out.ok
    /\ fb.response.error = "FAILED (remote: flashing is not allowed)"

\* ---- C5

SuccessEvents(r) == { i \in DOMAIN stream[r] : HasSuccess(Events(r)[i]) }

LastKnownProgress(r) ==
    IF Len(stream[r]) >= 2 THEN Events(r)[Len(stream[r]) - 1].progress ELSE 0

\* C6: the final event of a flash stream carries progress 100 when the
\* session succeeded; when it failed it carries success = false, the last
\* progress value emitted before it and a non-empty error string.
C6_FinalEventProgress ==
    \A r \in Reqs :
        (kind[r] = "flash" /\ Streaming(r) /\ closed[r]) =>
            LET final == Events(r)[Len(stream[r])] IN
            /\ final.success => final.progress = 100
            /\ ~final.success =>
                 /\ final.progress = LastKnownProgress(r)
                 /\ "error" \in DOMAIN final
                 /\ final.error # ""

\* ---- C7

\* The steps that move a session from stage to stage.  Progress callbacks
\* inside a stage or after the end change neither a session's stage nor
\* whether its stream is closed, and are left out here.
LiveNext ==
    \/ \E r \in Reqs, path \in FirmwarePaths, d \in Devices : PostFlash(r, path, d)
    \/ \E r \in Reqs, url \in DownloadUrls : PostDownload(r, url)
    \/ \E r \in Reqs : StageAnswer(r)
    \/ \E r \in Reqs : StageTimeout(r)

\* The event loop runs a timer that is due: a stage's timeout fires unless
\* the stage ends first.  Nothing obliges a device operation to answer.
FairSpec == Init /\ [][LiveNext]_vars /\ \A r \in Reqs : WF_vars(StageTimeout(r))

\* C7: every started session eventually is Complete or Failed with its
\* stream closed, whether or not its device operations answer.
C7_EventuallyTerminal ==
    \A r \in Reqs :
        (Streaming(r) /\ sess[r].stage \notin Terminal \cup {"Idle"})
            ~> (sess[r].stage \in Terminal /\ closed[r])

\* A session that nothing but the stage timeout ended, while flashing.
C7_Witness ==
    \E r \in Reqs :
        /\ kind[r] = "flash" /\ closed[r]
        /\ sess[r].stage = "Failed" /\ sess[r].lastError = "StageTimeout"
        /\ \E i \in DOMAIN issued[r] : IsRadioFlash(issued[r][i])

\* ---- C8

\* What the stream must hold for the i-th thing the session emitted.
Written(k, x) == IF k = "flash" THEN x ELSE DownloadProgressEvent(x)

\* The events of the stream that the progress callback wrote.
ProgressEvents(r) ==
    IF closed[r] THEN SubSeq(Events(r), 1, Len(stream[r]) - 1) ELSE Events(r)

\* C8: the progress events of a stream are the session's emissions, in the
\* order it made them (a callback after the close excepted, which is not
\* written), stage after stage, and nothing of another session.
C8_OrderedDelivery ==
    \A r \in Reqs :
        Streaming(r) =>
            LET pe == ProgressEvents(r) IN
            /\ Len(pe) = Len(emitted[r]) - (IF threw[r] THEN 1 ELSE 0)
            /\ \A i \in DOMAIN pe : pe[i] = Written(kind[r], emitted[r][i])
            /\ kind[r] = "flash" =>
                 \A i, j \in DOMAIN pe :
                    i < j => StageIndex("flash", pe[i].stage) <= StageIndex("flash", pe[j].stage)

\* Two sessions on different devices under way at once, each with several
\* events written.
C8_Witness ==
    \E r, q \in Reqs :
        /\ r # q /\ Live(r) /\ Live(q)
        /\ Len(stream[r]) >= 4 /\ Len(stream[q]) >= 3
        /\ sess[r].stage # sess[q].stage

\* ---- C9

WellFormedEvent(e) ==
    /\ {"stage", "progress", "message"} \subseteq DOMAIN e
    /\ e.progress \in 0..100

\* C9: every event written to a flash or a download stream has a stage, a
\* progress within 0..100 and a message.
C9_EventShape ==
    \A r \in Reqs : \A i \in DOMAIN stream[r] : WellFormedEvent(Events(r)[i])

\* ---- C10

ShellMeta == {";", "|", "&", "$", "\"", "<", ">", "(", ")", "\n"}

HasShellMeta(v) == \E i \in DOMAIN v : v[i] \in ShellMeta

\* The caller-supplied values a partition operation interpolates.
InterpolatedFields ==
    {"partition", "imagePath", "recoveryPath", "bootPath", "systemPath", "radioPath",
     "modemPath", "erasePartition", "formatPartition", "filesystem", "mode",
     "infoPartition"}

\* C10: a partition operation given a partition, filesystem, mode or path
\* that holds a shell metacharacter runs no command.
C10_NoShellMetaExecuted ==
    (fb # NoFastboot /\ fb.action # "execute") =>
        ( (\E f \in InterpolatedFields \cap DOMAIN fb.body : HasShellMeta(fb.body[f]))
            => fb.ran = <<>> )

\* ---- C11

\* The parameters an action requires, by route and method.
RequiredFields(route, method, action) ==
    CASE route = "fastboot" /\ action = "execute" -> {"command"}
      [] route = "fastboot" /\ action = "flash-partition" -> {"partition", "imagePath"}
      [] route = "fastboot" /\ action \in FixedFlashActions -> {PathField(action)}
      [] route = "fastboot" /\ action = "erase-partition" -> {"erasePartition"}
      [] route = "fastboot" /\ action = "format-partition" -> {"formatPartition"}
      [] route = "fastboot" /\ action = "get-partition-info" -> {"infoPartition"}
      [] route = "fastboot" /\ action = "validate-image" -> {"validateImagePath"}
      [] route = "device" /\ method = "POST" /\ action \in {"get-support", "get-warnings"} ->
            {"codename"}
      [] route = "device" /\ method = "POST" /\ action = "validate-operation" -> {"operation"}
      [] route = "search" /\ method = "GET"
         /\ action \in {"search", "popular", "latest", "compatible"} -> {"codename"}
      [] route = "search" /\ method = "GET" /\ action = "check-updates" ->
            {"codename", "currentVersion"}
      [] route = "search" /\ method = "GET" /\ action = "validate-url" -> {"url"}
      [] route = "search" /\ method = "POST" /\ action = "get-details" -> {"firmwareId"}
      [] route = "search" /\ method = "POST" /\ action = "search-advanced" -> {"codename"}
      [] route = "flash" /\ method = "POST" /\ action = "download" -> {"firmwareId"}
      [] OTHER -> {}

ActionOf(route, method, body) ==
    IF "action" \in DOMAIN body THEN body.action
    ELSE IF route = "search" /\ method = "GET" THEN "search"
    ELSE "none"

MissingRequired(route, method, body) ==
    \E f \in RequiredFields(route, method, ActionOf(route, method, body)) :
        f \notin DOMAIN body \/ body[f] = <<>>

\* C11: a request that lacks a parameter its action requires is answered
\* with success = false and nothing else happens: the fastboot route runs no
\* command and checks no image, the device, search and flash routes call no
\* library operation, and a flash or download request without its path
\* opens no stream, starts no session and reaches no transport.
C11_MissingParameterRejected ==
    /\ (fb # NoFastboot /\ MissingRequired("fastboot", "POST", fb.body)) =>
          /\ fb.response.success = FALSE
          /\ fb.ran = <<>>
          /\ fb.validated = <<>>
    /\ (api # NoApi /\ MissingRequired(api.route, api.method, api.body)) =>
          /\ api.response.success = FALSE
          /\ api.calls = <<>>
    /\ \A r \in Reqs :
          /\ Streaming(r) => sess[r].path # <<>>
          /\ (kind[r] # "free" /\ ~Streaming(r)) =>
                /\ resp[r].success = FALSE
                /\ sess[r] = NoSession
                /\ stream[r] = <<>> /\ emitted[r] = <<>> /\ issued[r] = <<>>
                /\ ~closed[r]

\* An update check with its codename but without the current version was
\* turned away.
C11_Witness ==
    /\ api # NoApi
    /\ api.route = "search" /\ api.method = "GET"
    /\ ActionOf(api.route, api.method, api.body) = "check-updates"
    /\ api.body.codename # <<>>
    /\ api.body.currentVersion = <<>>
    /\ api.response.status = 400
    /\ api.calls = <<>>

\* ---- C12

\* A command that only lists the attached devices.
IsListing(cmd) == cmd = <<"fastboot", "devices">>

\* C12: a manager operation called without a deviceId while more than one
\* device is attached reports DeviceAmbiguous and runs no command other than
\* the listing of devices.
C12_AmbiguousDeviceRejected ==
    (mgr # NoCall /\ mgr.deviceId = NoDevice /\ Len(mgr.attached) > 1) =>
        /\ mgr.error = "DeviceAmbiguous"
        /\ \A i \in DOMAIN mgr.ran : IsListing(mgr.ran[i])

\* ---- C13

\* The command carries the selector of deviceId right after the binary.
ScopedTo(cmd, deviceId) ==
    Len(cmd) >= 3 /\ cmd[1] = "fastboot" /\ cmd[2] = "-s" /\ cmd[3] = deviceId

\* C13: a call made with a deviceId scopes every device command it runs,
\* variable reads included, to that deviceId (the listing of devices aside);
\* a request that carries a deviceId has it passed to every command the
\* fastboot route runs and to every library call the other routes make that
\* reaches a device.
C13_ScopedToDevice ==
    /\ (mgr # NoCall /\ mgr.deviceId # NoDevice) =>
          \A i \in DOMAIN mgr.ran :
              IsListing(mgr.ran[i]) \/ ScopedTo(mgr.ran[i], mgr.deviceId)
    /\ (fb # NoFastboot /\ fb.body.deviceId # NoDevice) =>
          \A i \in DOMAIN fb.ran : ScopedTo(fb.ran[i], fb.body.deviceId)
    /\ (api # NoApi /\ "deviceId" \in DOMAIN api.body /\ api.body.deviceId # <<>>) =>
          \A i \in DOMAIN api.calls :
              api.calls[i].fn \in {"deviceDetectionManager.isOnePlusDevice",
                                   "getCurrentRadioVersion", "backupCurrentRadio"}
                => \E j \in DOMAIN api.calls[i].args :
                       api.calls[i].args[j] = api.body.deviceId

\* ---- C14

\* C14: executeCommand returns a result whatever the process did: when the
\* process succeeded, success with no error and the first channel's text
\* followed by the second's as output; when it failed (non-zero exit, spawn
\* failure), success = false with the failure's message as error.
C14_ExecuteCommandResult ==
    (mgr # NoCall /\ mgr.fn = "executeCommand") =>
        /\ Len(mgr.ran) = 1
        /\ "success" \in DOMAIN mgr.result
        /\ mgr.out.ok =>
              /\ mgr.result.success = TRUE
              /\ "error" \notin DOMAIN mgr.result
              /\ mgr.result.output = mgr.out.stdout \o mgr.out.stderr
        /\ ~mgr.out.ok =>
              /\ mgr.result.success = FALSE
              /\ mgr.result.error = mgr.out.message
              /\ mgr.result.error # ""

\* A command that wrote to both channels has returned.
C14_Witness ==
    /\ mgr # NoCall /\ mgr.fn = "executeCommand"
    /\ mgr.out.ok
    /\ mgr.out.stdout # <<>> /\ mgr.out.stderr # <<>>
    /\ mgr.result.output = <<"OKAY", "Finished.">>

\* ---- C15

\* Where the output holds a `name: value` entry of exactly this variable:
\* the name starts a line and is followed by the colon.
EntryPositions(output, variable) ==
    { i \in 1..(Len(output) - 1) :
        /\ i = 1 \/ output[i - 1] = "\n"
        /\ output[i] = variable
        /\ output[i + 1] = ":" }

EntryValue(output, variable) ==
    LET i == CHOOSE m \in EntryPositions(output, variable) :
                 \A n \in EntryPositions(output, variable) : m <= n
    IN Trim(RestOfLine(output, i + 2))

\* C15: getVariable returns the trimmed value of the entry of exactly the
\* variable asked for, found in the two channels put together; it returns
\* null when the command fails or no such entry is there, and never the
\* value of another variable or other text.
C15_GetVariableValue ==
    (mgr # NoCall /\ mgr.fn \in {"getVariable", "getDeviceCodename"}) =>
        IF ~mgr.out.ok THEN mgr.result = Null
        ELSE LET output == mgr.out.stdout \o mgr.out.stderr IN
             IF EntryPositions(output, mgr.variable) = {} THEN mgr.result = Null
             ELSE mgr.result = EntryValue(output, mgr.variable)

\* ---- C16

Returned == wait.pc = "returned"

\* C16: a waitForDevice call that returns true does so at the first poll
\* that saw a device and before timeout milliseconds have passed since the
\* call; one that returns false does so with the timeout passed and no poll
\* having seen a device.
C16_WaitResult ==
    Returned =>
        /\ wait.result = TRUE =>
              /\ wait.seen # <<>>
              /\ wait.seen[Len(wait.seen)]
              /\ \A i \in 1..(Len(wait.seen) - 1) : ~wait.seen[i]
              /\ wait.now - wait.startTime < wait.timeout
        /\ wait.result = FALSE =>
              /\ \A i \in DOMAIN wait.seen : ~wait.seen[i]
              /\ wait.now - wait.startTime >= wait.timeout

\* ---- C17

\* C17: two consecutive polls of one waitForDevice call start at least the
\* poll interval apart, and while the call is waiting for a poll or for its
\* timer the fastboot route can take a request.
C17_PollSpacing ==
    /\ wait # NoWait =>
          \A i \in 1..(Len(wait.polls) - 1) :
              wait.polls[i + 1] - wait.polls[i] >= PollInterval
    /\ (wait # NoWait /\ wait.pc \in {"polling", "sleeping"} /\ fb = NoFastboot) =>
          ENABLED (\E body \in ContinueBodies, out \in SessionOutcomes :
                      FbPost(body, out, "missing"))

\* A call is in its third poll while the fastboot route has answered a
\* request.
C17_Witness ==
    /\ wait # NoWait
    /\ wait.pc = "polling"
    /\ Len(wait.polls) = 3
    /\ wait.polls[3] - wait.polls[2] = PollInterval
    /\ fb # NoFastboot

\* ---- C18

\* The brand markers.
Allowlist == {oneplus, op, nord}

\* C18: isOnePlusDevice is true exactly when the product or the brand the
\* device reports contains, in any case, one of the markers of the one
\* allowlist; a variable that could not be read contains none.
C18_OnePlusAllowlist ==
    (mgr # NoCall /\ mgr.fn = "isOnePlusDevice") =>
        ( mgr.result <=>
            \E marker \in Allowlist :
                \/ IncludesMarker(mgr.product, marker)
                \/ IncludesMarker(mgr.brand, marker) )

\* ---- C19

DestructiveActions ==
    {"unlock-bootloader", "erase-partition", "format-partition"} \cup FlashActions

\* C19: the success response of an unlock, flash, erase or format action
\* carries a message.
C19_DestructiveSuccessMessage ==
    (fb # NoFastboot /\ fb.action \in DestructiveActions /\ fb.response.success = TRUE) =>
        /\ "message" \in DOMAIN fb.response
        /\ fb.response.message # ""

\* ---- C20

\* C20: a 'search-advanced' request sorted by version answers with its
\* records in descending order of the structured comparison, in which
\* numeric segments compare as numbers (13.10 above 13.2).
C20_VersionOrder ==
    ( /\ api # NoApi
      /\ api.route = "search" /\ api.method = "POST"
      /\ api.body.action = "search-advanced"
      /\ api.body.sortBy = <<"version">>
      /\ api.response.success = TRUE )
    => \A i, j \in DOMAIN api.response.firmware :
          i < j => VersionCompare(api.response.firmware[i].version,
                                  api.response.firmware[j].version) >= 0

\* ---- C21

\* The request being answered is this GET action of the radio search route
\* with a codename.
SearchRouteGet(action) ==
    /\ api # NoApi
    /\ api.route = "search" /\ api.method = "GET"
    /\ "action" \in DOMAIN api.body /\ api.body.action = action
    /\ Get(api.body, "codename") # <<>>

Records == { FirmwareDatabase[i] : i \in DOMAIN FirmwareDatabase }

Listed(list) == { list[i] : i \in DOMAIN list }

\* C21: a 'compatible' request is answered with exactly the records whose
\* compatibility set contains the codename and, when a current version is
\* given, whose version is strictly newer than it, each once, from the
\* newest version to the oldest, and with their number as totalCount.
C21_CompatibleStrictlyNewer ==
    SearchRouteGet("compatible") =>
        LET current == Get(api.body, "currentVersion")
            firmware == api.response.firmware
        IN /\ api.response.success = TRUE
           /\ Listed(firmware)
                = { fw \in Records :
                      /\ api.body.codename \in fw.compatibility
                      /\ current # <<>> => VersionCompare(fw.version, current) > 0 }
           /\ \A i, j \in DOMAIN firmware :
                i < j => VersionCompare(firmware[i].version, firmware[j].version) >= 0
           /\ api.response.totalCount = Len(firmware)

\* Current version 11.0 on guacamole: 12.0, then 11.1.
C21_Witness ==
    /\ SearchRouteGet("compatible")
    /\ api.body.codename = <<"guacamole">>
    /\ api.body.currentVersion = <<"1", "1", ".", "0">>
    /\ [i \in DOMAIN api.response.firmware |-> api.response.firmware[i].version]
         = << <<"1", "2", ".", "0">>, <<"1", "1", ".", "1">> >>

\* ---- C22

\* The records that pass every filter given.
Matching(codename, region, version, officialOnly) ==
    { fw \in Records :
        /\ fw.codename = codename
        /\ region # <<>> => fw.region = region
        /\ version # <<>> => includes(fw.version, version)
        /\ officialOnly => fw.isOfficial }

\* C22: a 'search' request, and a 'search-advanced' request without query
\* and limit, is answered without an error by exactly the records of the
\* codename that have the region given, match the version filter given and
\* are official when officialOnly is requested, each once, with their number
\* as totalCount.
C22_SearchConjunctive ==
    /\ SearchRouteGet("search") =>
         LET matching == Matching(api.body.codename, Get(api.body, "region"),
                                  Get(api.body, "version"),
                                  Get(api.body, "officialOnly") = <<"true">>)
         IN /\ api.response.success = TRUE
            /\ Listed(api.response.firmware) = matching
            /\ Len(api.response.firmware) = Cardinality(matching)
            /\ api.response.totalCount = Cardinality(matching)
    /\ ( /\ api # NoApi
         /\ api.route = "search" /\ api.method = "POST"
         /\ api.body.action = "search-advanced"
         /\ api.body.codename # <<>>
         /\ api.body.query = <<>> /\ api.body.limit = 0 ) =>
         LET matching == Matching(api.body.codename, Get(api.body, "region"),
                                  Get(api.body, "version"), api.body.officialOnly)
         IN /\ api.response.success = TRUE
            /\ Listed(api.response.firmware) = matching
            /\ api.response.totalCount = Cardinality(matching)

\* Region EU and officialOnly: the three official EU records; and a version
\* filter nothing matches has been answered with no record.
C22_Witness ==
    /\ SearchRouteGet("search")
    /\ Get(api.body, "region") = <<"E", "U">>
    /\ Get(api.body, "officialOnly") = <<"true">>
    /\ { fw.id : fw \in Listed(api.response.firmware) } = {"fw1", "fw2", "fw3"}
    /\ api.response.totalCount = 3
    /\ \E k \in DOMAIN cache : cache[k] = <<>>

\* ---- C23

\* C23: a flash action runs a flash command only for an image that
\* validateImage was called on and found present and not empty.
C23_FlashOnlyValidatedImage ==
    (fb # NoFastboot /\ fb.action \in FlashActions /\ fb.ran # <<>>) =>
        /\ fb.validated = <<fb.body[PathField(fb.action)]>>
        /\ fb.file = "nonempty"

\* ---- C24

\* C24: a 'search' request is answered with the records in the order the
\* catalog gives them for its parameters, whatever 'search-advanced'
\* requests were answered before it.
C24_SearchAdvancedLeavesOrder ==
    SearchRouteGet("search") =>
        api.response.firmware = searchFirmware([k \in {} |-> <<>>], SearchArgs(api.body))

====
